---- MODULE Spec2Model ----
(***************************************************************************)
(* The coupon / offer engine of the inventino e-commerce backend:          *)
(*   models/offers.js            the Offer schema, validateCoupon,         *)
(*                               calculateDiscount, applyCoupon            *)
(*   routes/offerRoutes.js       the file that holds the handlers:         *)
(*                               createOffer, updateOffer, deleteOffer,    *)
(*                               applyCoupon, removeCoupon                 *)
(*   controllers/offerController.js   the file that holds the route table  *)
(*                               and the express-validator chains         *)
(*                                                                         *)
(* Money.  calculateDiscount computes orderAmount * value / 100 in         *)
(* floating point.  The model keeps order amounts, offer values and caps   *)
(* as integers and carries every discount in hundredths (Scale), so the    *)
(* division is exact and no rounding is invented.                          *)
(*                                                                         *)
(* Persistence.  An Offer document is loaded by findOne into a copy that   *)
(* belongs to the request; save() sends the changes made to that copy:     *)
(* a $set of the scalar paths that were assigned (timesUsed) and a $push   *)
(* of the elements pushed on an array (usageHistory).  The schema does not *)
(* turn on optimisticConcurrency, so a save never fails because another    *)
(* request saved in between.                                               *)
(***************************************************************************)
EXTENDS Integers, Sequences, FiniteSets, TLC

VARIABLES
    offers,     \* the offers collection: a set of Offer documents
    now,        \* the clock read by new Date()
    pc,         \* pc[r]: where request / call r stands
    req,        \* req[r]: the inputs of r (code, orderAmount, userId, orderId)
    doc,        \* doc[r]: the Offer document r holds in memory
    discount,   \* discount[r]: the value calculateDiscount returned to r
    result,     \* result[r]: how validateCoupon ended for r
    response    \* response[r]: what r answered

vars == <<offers, now, pc, req, doc, discount, result, response>>

----------------------------------------------------------------------------
(* Bounds of the model *)

MaxReq == 2          \* concurrent requests
MaxLimit == 2        \* largest usageLimit drawn
MaxValue == 2        \* small offer values 0..MaxValue, besides the sample values
MaxAmount == 3       \* small order amounts 0..MaxAmount, besides the sample amounts
MaxCap == 2          \* small maximumDiscount 0..MaxCap, besides the sample caps
MaxTime == 3         \* clock values 0..MaxTime
MaxUsed == 3         \* largest stored timesUsed drawn for a single validateCoupon call

(* Program constants *)

Null == -1           \* null / undefined of an optional number
Scale == 100         \* the divisor of a percentage; discounts are in 1/Scale
MinUsageLimit == 1   \* usageLimit: min 1
MaxPercentage == 100 \* a percentage value may not exceed 100

Reqs == 1..MaxReq
Users == {"u1", "u2"}
NoUser == "null"          \* userId = null
NoOrder == "null"         \* orderId = null
Types == {"percentage", "fixed"}

----------------------------------------------------------------------------
(* JavaScript helpers *)

\* !x is false exactly for a number that is neither null/undefined nor 0
Truthy(x) == x # Null /\ x # 0

Min(a, b) == IF a <= b THEN a ELSE b

\* String.prototype.toUpperCase on the codes the model uses
toUpperCase(c) ==
    CASE c = "save10" -> "SAVE10"
      [] c = "Save10" -> "SAVE10"
      [] c = "nope" -> "NOPE"
      [] c = "deal5" -> "DEAL5"
      [] OTHER -> c

----------------------------------------------------------------------------
(* The Offer schema *)

NoDoc ==
    [id |-> 0, code |-> "", type |-> "fixed", value |-> 0,
     minimumOrderAmount |-> 0, maximumDiscount |-> Null, usageLimit |-> Null,
     timesUsed |-> 0, startDate |-> 0, endDate |-> 0, isActive |-> FALSE,
     userSpecific |-> FALSE, allowedUsers |-> {}, usageHistory |-> <<>>]

\* value: min 0, and the validator of the path
valueValid(d) ==
    /\ d.value >= 0
    /\ IF d.type = "percentage" THEN d.value <= MaxPercentage ELSE d.value > 0

\* maximumDiscount: min 0, and the validator of the path; neither runs on null
maximumDiscountValid(d) ==
    \/ d.maximumDiscount = Null
    \/ /\ d.maximumDiscount >= 0
       /\ IF d.type = "percentage"
          THEN (~Truthy(d.maximumDiscount)) \/ d.maximumDiscount > 0
          ELSE TRUE

\* usageLimit: min 1, default null
usageLimitValid(d) == d.usageLimit = Null \/ d.usageLimit >= MinUsageLimit

\* the endDate validator with >= for >
endDateValid_orEqual(d) == d.endDate >= d.startDate

\* endDate: the validator of the path, and the pre('save') hook
endDateValid(d) == d.endDate > d.startDate

\* an element of usageHistory: userId required, discountApplied required, min 0
usageEntryValid(e) ==
    /\ e.userId # NoUser
    /\ e.discountApplied # Null
    /\ e.discountApplied >= 0

\* what document validation on save() accepts
SchemaValid(d) ==
    /\ d.type \in Types
    /\ valueValid(d)
    /\ maximumDiscountValid(d)
    /\ usageLimitValid(d)
    /\ endDateValid(d)
    /\ d.minimumOrderAmount >= 0
    /\ d.timesUsed >= 0
    /\ \A i \in 1..Len(d.usageHistory) : usageEntryValid(d.usageHistory[i])

----------------------------------------------------------------------------
(* validateCoupon *)

\* the query without the isActive condition
findOne_ignoresActive(coll, code, t) ==
    {o \in coll : /\ o.code = toUpperCase(code)
                  /\ o.startDate <= t
                  /\ o.endDate >= t}

\* the query comparing the code as the caller wrote it
findOne_caseSensitive(coll, code, t) ==
    {o \in coll : /\ o.code = code
                  /\ o.isActive = TRUE
                  /\ o.startDate <= t
                  /\ o.endDate >= t}

\* the query with $lt for $lte on startDate
findOne_startExclusive(coll, code, t) ==
    {o \in coll : /\ o.code = toUpperCase(code)
                  /\ o.isActive = TRUE
                  /\ o.startDate < t
                  /\ o.endDate >= t}

\* the query of validateCoupon: code, isActive, startDate <= now <= endDate
findOne(coll, code, t) ==
    {o \in coll : /\ o.code = toUpperCase(code)
                  /\ o.isActive = TRUE
                  /\ o.startDate <= t
                  /\ o.endDate >= t}

\* the minimum check with <= for <
minimumNotMet_inclusive(offer, orderAmount) == orderAmount <= offer.minimumOrderAmount

minimumNotMet(offer, orderAmount) == orderAmount < offer.minimumOrderAmount

\* the usage check with > for >=
usageLimitExceeded_strict(offer) ==
    Truthy(offer.usageLimit) /\ offer.timesUsed > offer.usageLimit

\* the usage check that takes an unset limit for a limit
usageLimitExceeded_unsetCounts(offer) == offer.timesUsed >= offer.usageLimit

usageLimitExceeded(offer) ==
    Truthy(offer.usageLimit) /\ offer.timesUsed >= offer.usageLimit

\* the user check with the negation of includes() left out
userNotEligible_inverted(offer, userId) ==
    /\ offer.userSpecific
    /\ userId # NoUser
    /\ userId \in offer.allowedUsers

userNotEligible(offer, userId) ==
    /\ offer.userSpecific
    /\ userId # NoUser
    /\ ~(userId \in offer.allowedUsers)

Outcome(kind, text, amount, offer) ==
    [kind |-> kind, message |-> text, amount |-> amount, offer |-> offer]

\* what a caller keeps of an outcome besides the offer
Ended(v) == [kind |-> v.kind, message |-> v.message, amount |-> v.amount]

NoOutcome == Ended(Outcome("none", "", Null, NoDoc))

\* validateCoupon with the usage check moved before the minimum check
validateCoupon_usageFirst(coll, t, code, orderAmount, userId) ==
    LET found == findOne(coll, code, t) IN
    IF found = {}
    THEN Outcome("NotFound", "Invalid or expired coupon code", Null, NoDoc)
    ELSE
      LET offer == CHOOSE o \in found : TRUE IN
      IF usageLimitExceeded(offer)
      THEN Outcome("UsageLimitExceeded", "Coupon usage limit exceeded", Null, NoDoc)
      ELSE IF minimumNotMet(offer, orderAmount)
      THEN Outcome("MinimumNotMet", "Minimum order amount required",
                   offer.minimumOrderAmount, NoDoc)
      ELSE IF userNotEligible(offer, userId)
      THEN Outcome("UserNotEligible",
                   "This coupon is not available for your account", Null, NoDoc)
      ELSE Outcome("ok", "", Null, offer)

validateCoupon(coll, t, code, orderAmount, userId) ==
    LET found == findOne(coll, code, t) IN
    IF found = {}
    THEN Outcome("NotFound", "Invalid or expired coupon code", Null, NoDoc)
    ELSE
      LET offer == CHOOSE o \in found : TRUE IN
      IF minimumNotMet(offer, orderAmount)
      THEN Outcome("MinimumNotMet", "Minimum order amount required",
                   offer.minimumOrderAmount, NoDoc)
      ELSE IF usageLimitExceeded(offer)
      THEN Outcome("UsageLimitExceeded", "Coupon usage limit exceeded", Null, NoDoc)
      ELSE IF userNotEligible(offer, userId)
      THEN Outcome("UserNotEligible",
                   "This coupon is not available for your account", Null, NoDoc)
      ELSE Outcome("ok", "", Null, offer)

----------------------------------------------------------------------------
(* calculateDiscount, in hundredths *)

rawDiscount(this, orderAmount) ==
    IF this.type = "percentage" THEN orderAmount * this.value
    ELSE IF this.type = "fixed" THEN this.value * Scale
    ELSE 0

capDiscount(this, d) ==
    IF Truthy(this.maximumDiscount) /\ d > this.maximumDiscount * Scale
    THEN this.maximumDiscount * Scale
    ELSE d

\* calculateDiscount without the final Math.min
calculateDiscount_noClamp(this, orderAmount) ==
    capDiscount(this, rawDiscount(this, orderAmount))

calculateDiscount(this, orderAmount) ==
    Min(capDiscount(this, rawDiscount(this, orderAmount)), orderAmount * Scale)

----------------------------------------------------------------------------
(* applyCoupon and save *)

\* orderId || null
orNull(orderId) == IF orderId \in {"undefined", "null", ""} THEN NoOrder ELSE orderId

usageEntry(userId, orderId, discountApplied, at) ==
    [userId |-> userId, orderId |-> orNull(orderId),
     discountApplied |-> discountApplied, appliedAt |-> at]

\* applyCoupon with the increment left out
applyCoupon_noIncrement(this, userId, orderId, discountApplied, at) ==
    [this EXCEPT !.usageHistory = Append(@, usageEntry(userId, orderId, discountApplied, at))]

\* applyCoupon that counts the use only on an offer that is active
applyCoupon_activeOnly(this, userId, orderId, discountApplied, at) ==
    [this EXCEPT !.timesUsed = IF this.isActive THEN @ + 1 ELSE @,
                 !.usageHistory = Append(@, usageEntry(userId, orderId, discountApplied, at))]

\* the document after the two assignments of applyCoupon
applyCoupon(this, userId, orderId, discountApplied, at) ==
    [this EXCEPT !.timesUsed = @ + 1,
                 !.usageHistory = Append(@, usageEntry(userId, orderId, discountApplied, at))]

\* the update without the $set of timesUsed
saveUpdate_historyOnly(stored, this) ==
    [stored EXCEPT !.usageHistory = Append(@, this.usageHistory[Len(this.usageHistory)])]

\* the update save() sends for a document changed by applyCoupon:
\* $set timesUsed, $push the new element of usageHistory
saveUpdate(stored, this) ==
    [stored EXCEPT !.timesUsed = this.timesUsed,
                   !.usageHistory = Append(@, this.usageHistory[Len(this.usageHistory)])]

\* save(): validation, then the update of the stored document with this id
saveOk(coll, this) == SchemaValid(this) /\ \E o \in coll : o.id = this.id

save(coll, this) ==
    IF saveOk(coll, this)
    THEN {IF o.id = this.id THEN saveUpdate(o, this) ELSE o : o \in coll}
    ELSE coll

----------------------------------------------------------------------------
(* Offers and inputs the specifications draw from *)

Offer(type, value, minimum, cap, limit, used, start, end, active, specific, allowed) ==
    [id |-> 1, code |-> "SAVE10", type |-> type, value |-> value,
     minimumOrderAmount |-> minimum, maximumDiscount |-> cap, usageLimit |-> limit,
     timesUsed |-> used, startDate |-> start, endDate |-> end, isActive |-> active,
     userSpecific |-> specific, allowedUsers |-> allowed, usageHistory |-> <<>>]

Limits == {Null} \cup (MinUsageLimit..MaxLimit)

\* the shapes of the sample offers WELCOME10, FLAT100 and LOYALTY20, each
\* unused, active, inside its window [1, MaxTime]
FlowOffers ==
    { Offer("percentage", 10, 500, 200, l, 0, 1, MaxTime, TRUE, FALSE, {}) : l \in Limits }
    \cup { Offer("fixed", 100, 1000, Null, l, 0, 1, MaxTime, TRUE, FALSE, {}) : l \in Limits }
    \cup { Offer("percentage", 20, 1000, 300, l, 0, 1, MaxTime, TRUE, TRUE, {"u1"}) : l \in Limits }

FlowCodes == {"save10", "NOPE"}
FlowAmounts == {0, 600, 1200}

NoReq == [code |-> "", orderAmount |-> 0, userId |-> NoUser, orderId |-> NoOrder]
Request(code, orderAmount, userId, orderId) ==
    [code |-> code, orderAmount |-> orderAmount, userId |-> userId, orderId |-> orderId]

NoResponse == [status |-> 0, success |-> FALSE, message |-> "", discount |-> Null]
Respond(status, success, message, d) ==
    [status |-> status, success |-> success, message |-> message, discount |-> d]

----------------------------------------------------------------------------
(* POST /offers/apply: the applyCoupon handler of the controller.  The        *)
(* handler runs up to the answer of findOne inside validateCoupon, then up    *)
(* to the answer of save inside applyCoupon; requests interleave at these.    *)

Init ==
    /\ offers \in {{o} : o \in FlowOffers}
    /\ now = 1
    /\ pc = [r \in Reqs |-> "start"]
    /\ req = [r \in Reqs |-> NoReq]
    /\ doc = [r \in Reqs |-> NoDoc]
    /\ discount = [r \in Reqs |-> Null]
    /\ result = [r \in Reqs |-> NoOutcome]
    /\ response = [r \in Reqs |-> NoResponse]

\* the handler going on to calculateDiscount with the stored offer after an
\* error of validateCoupon
HandlerValidate_continues(r) ==
    /\ pc[r] = "start"
    /\ \E code \in FlowCodes, orderAmount \in FlowAmounts, userId \in Users :
         /\ req' = [req EXCEPT ![r] = Request(code, orderAmount, userId, NoOrder)]
         /\ IF code = "" \/ ~Truthy(orderAmount)
            THEN /\ response' = [response EXCEPT ![r] =
                        Respond(400, FALSE, "Coupon code and order amount are required", Null)]
                 /\ pc' = [pc EXCEPT ![r] = "done"]
                 /\ UNCHANGED <<doc, result>>
            ELSE LET v == validateCoupon(offers, now, code, orderAmount, userId) IN
                 /\ result' = [result EXCEPT ![r] = Ended(v)]
                 /\ doc' = [doc EXCEPT ![r] = CHOOSE o \in offers : TRUE]
                 /\ pc' = [pc EXCEPT ![r] = "validated"]
                 /\ UNCHANGED response
    /\ UNCHANGED <<offers, now, discount>>

\* lines 93-100: the inputs, the 400 for a missing input, validateCoupon
HandlerValidate(r) ==
    /\ pc[r] = "start"
    /\ \E code \in FlowCodes, orderAmount \in FlowAmounts, userId \in Users :
         /\ req' = [req EXCEPT ![r] = Request(code, orderAmount, userId, NoOrder)]
         /\ IF code = "" \/ ~Truthy(orderAmount)
            THEN /\ response' = [response EXCEPT ![r] =
                        Respond(400, FALSE, "Coupon code and order amount are required", Null)]
                 /\ pc' = [pc EXCEPT ![r] = "done"]
                 /\ UNCHANGED <<doc, result>>
            ELSE LET v == validateCoupon(offers, now, code, orderAmount, userId) IN
                 /\ result' = [result EXCEPT ![r] = Ended(v)]
                 /\ IF v.kind = "ok"
                    THEN /\ doc' = [doc EXCEPT ![r] = v.offer]
                         /\ pc' = [pc EXCEPT ![r] = "validated"]
                         /\ UNCHANGED response
                    ELSE /\ response' = [response EXCEPT ![r] =
                                Respond(400, FALSE, v.message, Null)]
                         /\ pc' = [pc EXCEPT ![r] = "done"]
                         /\ UNCHANGED doc
    /\ UNCHANGED <<offers, now, discount>>

\* calculateDiscount that also records the use on the stored offer
HandlerCalculate_saves(r) ==
    /\ pc[r] = "validated"
    /\ discount' = [discount EXCEPT ![r] = calculateDiscount(doc[r], req[r].orderAmount)]
    /\ offers' = save(offers, applyCoupon(doc[r], req[r].userId, NoOrder, 0, now))
    /\ pc' = [pc EXCEPT ![r] = "calculated"]
    /\ UNCHANGED <<now, req, doc, result, response>>

\* line 102
HandlerCalculate(r) ==
    /\ pc[r] = "validated"
    /\ discount' = [discount EXCEPT ![r] = calculateDiscount(doc[r], req[r].orderAmount)]
    /\ pc' = [pc EXCEPT ![r] = "calculated"]
    /\ UNCHANGED <<offers, now, req, doc, result, response>>

\* the handler recording the value of the offer for the discount
HandlerApply_recordsValue(r) ==
    /\ pc[r] = "calculated"
    /\ LET this == applyCoupon(doc[r], req[r].userId, NoOrder, doc[r].value * Scale, now) IN
         /\ doc' = [doc EXCEPT ![r] = this]
         /\ offers' = save(offers, this)
         /\ response' = [response EXCEPT ![r] =
                IF saveOk(offers, this)
                THEN Respond(200, TRUE, "", discount[r])
                ELSE Respond(400, FALSE, "save failed", Null)]
    /\ pc' = [pc EXCEPT ![r] = "done"]
    /\ UNCHANGED <<now, req, discount, result>>

\* lines 106-110: offer.applyCoupon(userId, null, discount), then the answer
HandlerApply(r) ==
    /\ pc[r] = "calculated"
    /\ LET this == applyCoupon(doc[r], req[r].userId, NoOrder, discount[r], now) IN
         /\ doc' = [doc EXCEPT ![r] = this]
         /\ offers' = save(offers, this)
         /\ response' = [response EXCEPT ![r] =
                IF saveOk(offers, this)
                THEN Respond(200, TRUE, "", discount[r])
                ELSE Respond(400, FALSE, "save failed", Null)]
    /\ pc' = [pc EXCEPT ![r] = "done"]
    /\ UNCHANGED <<now, req, discount, result>>

Next == \E r \in Reqs : HandlerValidate(r) \/ HandlerCalculate(r) \/ HandlerApply(r)

Spec == Init /\ [][Next]_vars

----------------------------------------------------------------------------
(* offer.applyCoupon(userId, orderId, discountApplied) called directly on a   *)
(* document that validateCoupon returned, with arguments of the caller's       *)
(* choice: the user or none, an order id, none (undefined) or null, and the    *)
(* calculated discount or a negative one.                                      *)

OrderIds == {"undefined", "null", "ord1"}

MethodApply(r) ==
    /\ pc[r] = "calculated"
    /\ \E userId \in {req[r].userId, NoUser}, orderId \in OrderIds,
          discountApplied \in {discount[r], -Scale} :
         LET this == applyCoupon(doc[r], userId, orderId, discountApplied, now) IN
           /\ req' = [req EXCEPT ![r].userId = userId, ![r].orderId = orderId]
           /\ discount' = [discount EXCEPT ![r] = discountApplied]
           /\ doc' = [doc EXCEPT ![r] = this]
           /\ offers' = save(offers, this)
           /\ response' = [response EXCEPT ![r] =
                  IF saveOk(offers, this)
                  THEN Respond(200, TRUE, "", discountApplied)
                  ELSE Respond(400, FALSE, "save failed", Null)]
    /\ pc' = [pc EXCEPT ![r] = "done"]
    /\ UNCHANGED <<now, result>>

NextMethod == \E r \in Reqs : HandlerValidate(r) \/ HandlerCalculate(r) \/ MethodApply(r)

SpecMethod == Init /\ [][NextMethod]_vars

----------------------------------------------------------------------------
(* Redemption under concurrent requests *)

\* the stored offer (the collection holds one document in Spec and SpecMethod)
Stored == CHOOSE o \in offers : TRUE

\* the requests whose applyCoupon call has returned, and those it answered 200
Called == {r \in Reqs : pc[r] = "done" /\ result[r].kind = "ok"}
Succeeded == {r \in Called : response[r].success}

\* C1: of the applyCoupon calls made in parallel on an offer with usageLimit 1
\* and timesUsed 0, exactly one succeeds, every other one fails with
\* RedemptionRace, and the stored timesUsed never exceeds 1.
C1_ExactlyOneRedemption ==
    (Stored.usageLimit = 1 /\ Called # {}) =>
        /\ Cardinality(Succeeded) = 1
        /\ \A r \in Called \ Succeeded : response[r].message = "RedemptionRace"
        /\ Stored.timesUsed <= 1

\* C2: with usageLimit set, timesUsed <= usageLimit in every state, and the
\* offer is never redeemed more often than usageLimit allows.
C2_NeverPastLimit ==
    Stored.usageLimit # Null =>
        /\ Stored.timesUsed <= Stored.usageLimit
        /\ Cardinality(Succeeded) <= Stored.usageLimit

\* C3: from timesUsed 0 and no usageHistory, after every successful
\* applyCoupon the stored timesUsed is the number of stored usageHistory
\* entries, also when applications overlap.
C3_CounterMatchesHistory ==
    Succeeded # {} => Stored.timesUsed = Len(Stored.usageHistory)

----------------------------------------------------------------------------
(* One applyCoupon call *)

Last(h) == h[Len(h)]
Front(h) == SubSeq(h, 1, Len(h) - 1)

\* request r's applyCoupon call returns in this step, the save accepted
ApplyReturns(r) == pc[r] = "calculated" /\ pc'[r] = "done" /\ response'[r].success

\* the arguments of the call that returned, as the caller gave them
EntryMatchesCall(e, r) ==
    /\ e.userId = req'[r].userId
    /\ e.discountApplied = discount'[r]
    /\ e.orderId = (IF req'[r].orderId = "undefined" THEN NoOrder ELSE req'[r].orderId)

\* C4: one applyCoupon(userId, orderId, discountApplied) call raises timesUsed of
\* the offer it is called on by exactly 1 and appends exactly one usageHistory
\* entry, which carries the call's userId, orderId (null when none was given)
\* and discountApplied; the earlier entries stay as they were.  The same holds
\* of the stored document when no other application ran since it was loaded.
C4_ApplyAddsOneEntry ==
    [][\A r \in Reqs : ApplyReturns(r) =>
          /\ doc'[r].timesUsed = doc[r].timesUsed + 1
          /\ Len(doc'[r].usageHistory) = Len(doc[r].usageHistory) + 1
          /\ Front(doc'[r].usageHistory) = doc[r].usageHistory
          /\ EntryMatchesCall(Last(doc'[r].usageHistory), r)
          /\ Len(Stored'.usageHistory) = Len(Stored.usageHistory) + 1
          /\ Front(Stored'.usageHistory) = Stored.usageHistory
          /\ EntryMatchesCall(Last(Stored'.usageHistory), r)
          /\ (doc[r] = Stored => Stored'.timesUsed = Stored.timesUsed + 1)]_vars

\* a call with an order id has returned and its entry is the only one stored
C4_Witness ==
    \E r \in Reqs :
        /\ pc[r] = "done" /\ response[r].success
        /\ req[r].orderId = "ord1"
        /\ Stored.timesUsed = 1
        /\ Stored.usageHistory = <<usageEntry(req[r].userId, "ord1", discount[r], now)>>

----------------------------------------------------------------------------
(* calculateDiscount on every offer the schema accepts *)

Values == (0..MaxValue) \cup {10, 20, 50, 100, 150}
Caps == {Null} \cup (0..MaxCap) \cup {200, 300, 500}
Amounts == (0..MaxAmount) \cup {50, 600, 1200, 1500, 3000}

CalcOffers ==
    { o \in { Offer(t, v, 0, c, Null, 0, 1, MaxTime, TRUE, FALSE, {}) :
                  t \in Types, v \in Values, c \in Caps } : SchemaValid(o) }

\* request 1 holds the offer and is about to call calculateDiscount
InitCalc ==
    /\ now = 1
    /\ \E o \in CalcOffers, a \in Amounts :
         /\ offers = {o}
         /\ doc = [r \in Reqs |-> IF r = 1 THEN o ELSE NoDoc]
         /\ req = [r \in Reqs |-> IF r = 1 THEN Request("SAVE10", a, "u1", NoOrder) ELSE NoReq]
    /\ pc = [r \in Reqs |-> IF r = 1 THEN "validated" ELSE "idle"]
    /\ discount = [r \in Reqs |-> Null]
    /\ result = [r \in Reqs |-> NoOutcome]
    /\ response = [r \in Reqs |-> NoResponse]

NextCalc == \E r \in Reqs : HandlerCalculate(r)

SpecCalc == InitCalc /\ [][NextCalc]_vars

\* C5: for every offer the schema accepts and every orderAmount >= 0 the
\* discount calculateDiscount returns is at most orderAmount.
C5_DiscountWithinOrder ==
    \A r \in Reqs : pc[r] = "calculated" => discount[r] <= req[r].orderAmount * Scale

\* a fixed amount above the order total was clamped to the order total
C5_Witness ==
    \E r \in Reqs :
        /\ pc[r] = "calculated"
        /\ doc[r].type = "fixed" /\ doc[r].value > req[r].orderAmount
        /\ req[r].orderAmount > 0
        /\ discount[r] = req[r].orderAmount * Scale

\* C6: whenever maximumDiscount is set (any number >= 0, 0 included) the
\* discount calculateDiscount returns is at most maximumDiscount.
C6_DiscountWithinCap ==
    \A r \in Reqs :
        (pc[r] = "calculated" /\ doc[r].maximumDiscount # Null) =>
            discount[r] <= doc[r].maximumDiscount * Scale

\* the reference of C7: min(orderAmount, cap(raw))
RefRaw(o, a) == IF o.type = "percentage" THEN a * o.value ELSE o.value * Scale
RefCap(o, raw) ==
    IF o.maximumDiscount # Null THEN Min(raw, o.maximumDiscount * Scale) ELSE raw
Reference(o, a) == Min(a * Scale, RefCap(o, RefRaw(o, a)))

\* C7: calculateDiscount returns min(orderAmount, cap(raw)), raw being
\* orderAmount * value / 100 for a percentage and value for a fixed offer, and
\* cap(raw) = min(raw, maximumDiscount) when maximumDiscount is set, else raw.
C7_EqualsReference ==
    \A r \in Reqs :
        pc[r] = "calculated" => discount[r] = Reference(doc[r], req[r].orderAmount)

----------------------------------------------------------------------------
(* validateCoupon called once, on any stored offer, at any time *)

Minimums == {0, 2, 1000}
CallCodes == {"SAVE10", "save10", "NOPE"}
CallAmounts == (0..MaxAmount) \cup {800, 1000}

Used(o, n) ==
    [o EXCEPT !.timesUsed = n,
              !.usageHistory = [i \in 1..n |-> usageEntry("u1", NoOrder, 0, 1)]]

ValidateOffers ==
    { Used(Offer("fixed", 100, m, Null, l, 0, 1, 2, a, s, al), n) :
          m \in Minimums, l \in Limits, n \in 0..MaxUsed,
          a \in BOOLEAN, s \in BOOLEAN, al \in {{}, {"u1"}} }

InitValidate ==
    /\ offers \in {{o} : o \in ValidateOffers}
    /\ now \in 0..MaxTime
    /\ pc = [r \in Reqs |-> IF r = 1 THEN "start" ELSE "idle"]
    /\ req = [r \in Reqs |-> NoReq]
    /\ doc = [r \in Reqs |-> NoDoc]
    /\ discount = [r \in Reqs |-> Null]
    /\ result = [r \in Reqs |-> NoOutcome]
    /\ response = [r \in Reqs |-> NoResponse]

\* Offer.validateCoupon(code, orderAmount, userId) with userId given or null
CallValidate(r) ==
    /\ pc[r] = "start"
    /\ \E code \in CallCodes, orderAmount \in CallAmounts, userId \in Users \cup {NoUser} :
         LET v == validateCoupon(offers, now, code, orderAmount, userId) IN
           /\ req' = [req EXCEPT ![r] = Request(code, orderAmount, userId, NoOrder)]
           /\ result' = [result EXCEPT ![r] = Ended(v)]
           /\ doc' = [doc EXCEPT ![r] = v.offer]
    /\ pc' = [pc EXCEPT ![r] = "returned"]
    /\ UNCHANGED <<offers, now, discount, response>>

NextValidate == \E r \in Reqs : CallValidate(r)

SpecValidate == InitValidate /\ [][NextValidate]_vars

\* what the claims about validateCoupon assume of the call that returned
Returned(r) == pc[r] = "returned"
Available(r) ==
    /\ toUpperCase(req[r].code) = Stored.code
    /\ Stored.isActive
    /\ Stored.startDate <= now /\ now <= Stored.endDate
HasUses == Stored.usageLimit = Null \/ Stored.timesUsed < Stored.usageLimit
Qualifies(r) == req[r].orderAmount >= Stored.minimumOrderAmount
UserEligible(r) == ~Stored.userSpecific \/ req[r].userId \in Stored.allowedUsers

\* C8: on an active offer inside its window, with uses left and an eligible
\* user, validateCoupon fails with MinimumNotMet for every orderAmount below
\* minimumOrderAmount and succeeds from orderAmount = minimumOrderAmount on.
C8_MinimumBoundary ==
    \A r \in Reqs :
        (Returned(r) /\ Available(r) /\ HasUses /\ UserEligible(r)) =>
            IF req[r].orderAmount < Stored.minimumOrderAmount
            THEN result[r].kind = "MinimumNotMet"
                 /\ result[r].amount = Stored.minimumOrderAmount
            ELSE result[r].kind = "ok" /\ doc[r] = Stored

\* the FLAT100 scenario: minimum 1000, order of 800
C8_Witness ==
    \E r \in Reqs :
        /\ Returned(r) /\ Available(r) /\ HasUses /\ UserEligible(r)
        /\ Stored.minimumOrderAmount = 1000 /\ req[r].orderAmount = 800
        /\ result[r].kind = "MinimumNotMet"

\* C9: on an active offer inside its window with usageLimit set, a qualifying
\* orderAmount and an eligible user, validateCoupon fails with
\* UsageLimitExceeded whenever timesUsed >= usageLimit and succeeds below,
\* so at timesUsed = usageLimit - 1.
C9_UsageLimitBoundary ==
    \A r \in Reqs :
        (Returned(r) /\ Available(r) /\ Stored.usageLimit # Null
           /\ Qualifies(r) /\ UserEligible(r)) =>
            IF Stored.timesUsed >= Stored.usageLimit
            THEN result[r].kind = "UsageLimitExceeded"
            ELSE result[r].kind = "ok" /\ doc[r] = Stored

\* the first refusal: timesUsed has just reached usageLimit
C9_Witness ==
    \E r \in Reqs :
        /\ Returned(r) /\ Available(r) /\ Qualifies(r) /\ UserEligible(r)
        /\ Stored.usageLimit # Null /\ Stored.timesUsed = Stored.usageLimit
        /\ result[r].kind = "UsageLimitExceeded"

\* C10: on an otherwise valid offer with userSpecific = true and a userId that
\* is given, validateCoupon fails with UserNotEligible when userId is not in
\* allowedUsers and succeeds when it is.
C10_UserEligibility ==
    \A r \in Reqs :
        (Returned(r) /\ Available(r) /\ HasUses /\ Qualifies(r)
           /\ Stored.userSpecific /\ req[r].userId # NoUser) =>
            IF req[r].userId \in Stored.allowedUsers
            THEN result[r].kind = "ok" /\ doc[r] = Stored
            ELSE result[r].kind = "UserNotEligible"

\* a user outside allowedUsers was refused
C10_Witness ==
    \E r \in Reqs :
        /\ Returned(r) /\ Available(r) /\ HasUses /\ Qualifies(r)
        /\ Stored.userSpecific /\ Stored.allowedUsers = {"u1"} /\ req[r].userId = "u2"
        /\ result[r].kind = "UserNotEligible"

----------------------------------------------------------------------------
(* validateCoupon: the user check without a user, and the NotFound answer *)

\* C11: on an otherwise valid offer with userSpecific = true, validateCoupon
\* called without a userId (null) fails with UserNotEligible; it never returns
\* the offer to such a caller.
C11_AbsentUserRefused ==
    \A r \in Reqs :
        (Returned(r) /\ Available(r) /\ HasUses /\ Qualifies(r)
           /\ Stored.userSpecific /\ req[r].userId = NoUser) =>
            result[r].kind = "UserNotEligible" /\ doc[r] = NoDoc

\* the one answer for a code that cannot be used
NotFoundAnswer ==
    [kind |-> "NotFound", message |-> "Invalid or expired coupon code", amount |-> Null]

\* C12: validateCoupon gives one and the same NotFound error (kind and message)
\* for a code that no offer has, for an inactive offer, for an offer whose
\* window has not started and for one whose window has ended, whatever the
\* other fields of the offer and the other inputs are; so two stores that
\* differ only in such an offer give the same outcome.
C12_SameNotFound ==
    \A r \in Reqs :
        (Returned(r) /\ ~Available(r)) => result[r] = NotFoundAnswer /\ doc[r] = NoDoc

\* an inactive offer, inside its window, asked for by its code with an order
\* and a user that an active offer would accept
C12_Witness ==
    \E r \in Reqs :
        /\ Returned(r) /\ toUpperCase(req[r].code) = Stored.code
        /\ ~Stored.isActive
        /\ Stored.startDate <= now /\ now <= Stored.endDate
        /\ HasUses /\ Qualifies(r) /\ UserEligible(r)
        /\ result[r] = NotFoundAnswer

\* C13: validateCoupon finds the offer with the code asked for if and only if
\* isActive is true and startDate <= now <= endDate: found at now = startDate,
\* not found before startDate or after endDate, never found when inactive.
C13_FoundIffActiveInWindow ==
    \A r \in Reqs :
        (Returned(r) /\ toUpperCase(req[r].code) = Stored.code) =>
            ((result[r].kind # "NotFound") <=>
                (Stored.isActive /\ Stored.startDate <= now /\ now <= Stored.endDate))

\* an active offer was found at the very instant its window starts
C13_Witness ==
    \E r \in Reqs :
        /\ Returned(r) /\ toUpperCase(req[r].code) = Stored.code
        /\ Stored.isActive /\ now = Stored.startDate
        /\ result[r].kind # "NotFound"

----------------------------------------------------------------------------
(* Which steps of the apply flow write to the store *)

ValidateReturns(r) == pc[r] = "start" /\ pc'[r] # "start"
CalculateReturns(r) == pc[r] = "validated" /\ pc'[r] = "calculated"

\* C14: validateCoupon and calculateDiscount are read-only: a step of either
\* leaves every stored offer as it was (timesUsed and usageHistory included),
\* validateCoupon hands back the stored offer as it is, and the store changes
\* only in a step of applyCoupon.
C14_OnlyApplyWrites ==
    [][ /\ \A r \in Reqs :
              /\ (ValidateReturns(r) \/ CalculateReturns(r)) => offers' = offers
              /\ (ValidateReturns(r) /\ pc'[r] = "validated") => doc'[r] \in offers'
        /\ offers' # offers => \E r \in Reqs : ApplyReturns(r) ]_vars

\* a request went through validateCoupon and calculateDiscount with a
\* positive discount and the stored offer is still unused
C14_Witness ==
    \E r \in Reqs :
        /\ pc[r] = "calculated" /\ discount[r] > 0
        /\ Stored.timesUsed = 0 /\ Stored.usageHistory = <<>>
        /\ doc[r] = Stored

\* C16: applyCoupon on an offer whose stored timesUsed has already reached
\* usageLimit is rejected with RedemptionRace and leaves the stored timesUsed
\* and usageHistory as they were.
C16_ExhaustedApplyRejected ==
    [][ \A r \in Reqs :
          (ApplyReturns(r) /\ Stored.usageLimit # Null
             /\ Stored.timesUsed >= Stored.usageLimit) =>
              /\ ~response'[r].success
              /\ response'[r].message = "RedemptionRace"
              /\ offers' = offers ]_vars

----------------------------------------------------------------------------
(* The admin routes: createOffer, updateOffer and deleteOffer of the          *)
(* controller.  Each handler awaits one write, so a handler is one step, and  *)
(* the admin's operations come one after another.  The store starts empty or  *)
(* with one offer that has been redeemed once.  response[Admin] is the answer *)
(* to the admin's last call.                                                  *)

Admin == 0

\* the setter of the code path: uppercase: true
castCode(c) == toUpperCase(c)

AdminCodes == {"save10", "SAVE10", "deal5"}
AdminValues == {0, 50, 150}
AdminWindows == {<<1, MaxTime>>, <<2, 2>>, <<2, 1>>}
AdminStarts == {0, 2, MaxTime}
AdminEnds == {1, 2, MaxTime}

\* new Offer(req.body): the paths of the body through their setters, the
\* others at their defaults
newOffer(id, code, type, value, start, end) ==
    [id |-> id, code |-> castCode(code), type |-> type, value |-> value,
     minimumOrderAmount |-> 0, maximumDiscount |-> Null, usageLimit |-> Null,
     timesUsed |-> 0, startDate |-> start, endDate |-> end, isActive |-> TRUE,
     userSpecific |-> FALSE, allowedUsers |-> {}, usageHistory |-> <<>>]

\* Object.assign(offer, req.body) for a body with one key
assign(o, field, val) ==
    CASE field = "code" -> [o EXCEPT !.code = castCode(val)]
      [] field = "type" -> [o EXCEPT !.type = val]
      [] field = "value" -> [o EXCEPT !.value = val]
      [] field = "startDate" -> [o EXCEPT !.startDate = val]
      [] field = "endDate" -> [o EXCEPT !.endDate = val]
      [] field = "isActive" -> [o EXCEPT !.isActive = val]
      [] field = "timesUsed" -> [o EXCEPT !.timesUsed = val]
      [] field = "usageHistory" -> [o EXCEPT !.usageHistory = val]

\* error.message of a save() that failed: the validators of the document,
\* then the unique index on code; "" when the save went through
saveError(coll, d) ==
    CASE ~valueValid(d) /\ ~endDateValid(d) ->
            "value: Percentage cannot exceed 100% or fixed amount must be positive, endDate: End date must be after start date"
      [] ~valueValid(d) -> "value: Percentage cannot exceed 100% or fixed amount must be positive"
      [] ~endDateValid(d) -> "endDate: End date must be after start date"
      [] ~SchemaValid(d) -> "Offer validation failed"
      [] \E o \in coll : o.id # d.id /\ o.code = d.code -> "E11000 duplicate key"
      [] OTHER -> ""

\* an _id no stored offer and no loaded document has
freshId ==
    LET used == {o.id : o \in offers} \cup {doc[r].id : r \in Reqs}
    IN  CHOOSE i \in 1..(Cardinality(used) + 1) :
            i \notin used /\ \A j \in 1..(i - 1) : j \in used

Answer(a) == response' = [response EXCEPT ![Admin] = a]

createOffer(code, type, value, start, end) ==
    LET newDoc == newOffer(freshId, code, type, value, start, end)
        err == saveError(offers, newDoc)
    IN  /\ IF err = ""
           THEN offers' = offers \cup {newDoc} /\ Answer(Respond(201, TRUE, "", Null))
           ELSE UNCHANGED offers /\ Answer(Respond(400, FALSE, err, Null))
        /\ UNCHANGED <<now, pc, req, doc, discount, result>>

updateOffer(id, field, val) ==
    LET found == {o \in offers : o.id = id} IN
    /\ IF found = {}
       THEN UNCHANGED offers /\ Answer(Respond(404, FALSE, "Offer not found", Null))
       ELSE LET offer == assign(CHOOSE o \in found : TRUE, field, val)
                err == saveError(offers, offer)
            IN  IF err = ""
                THEN /\ offers' = (offers \ found) \cup {offer}
                     /\ Answer(Respond(200, TRUE, "", Null))
                ELSE UNCHANGED offers /\ Answer(Respond(400, FALSE, err, Null))
    /\ UNCHANGED <<now, pc, req, doc, discount, result>>

deleteOffer(id) ==
    LET found == {o \in offers : o.id = id} IN
    /\ offers' = offers \ found
    /\ IF found = {}
       THEN Answer(Respond(404, FALSE, "Offer not found", Null))
       ELSE Answer(Respond(200, TRUE, "Offer deleted successfully", Null))
    /\ UNCHANGED <<now, pc, req, doc, discount, result>>

\* the ids of the stored offers, and one that no offer has
OfferIds == {o.id : o \in offers} \cup {0}

AdminCreate ==
    \E code \in AdminCodes, type \in Types, value \in AdminValues, w \in AdminWindows :
        createOffer(code, type, value, w[1], w[2])

AdminUpdate ==
    \E id \in OfferIds :
        \/ \E code \in AdminCodes : updateOffer(id, "code", code)
        \/ \E type \in Types : updateOffer(id, "type", type)
        \/ \E value \in AdminValues : updateOffer(id, "value", value)
        \/ \E t \in AdminStarts : updateOffer(id, "startDate", t)
        \/ \E t \in AdminEnds : updateOffer(id, "endDate", t)
        \/ updateOffer(id, "timesUsed", 0)
        \/ updateOffer(id, "usageHistory", <<>>)

AdminDelete == \E id \in OfferIds : deleteOffer(id)

\* SAVE10 after one redemption by u1
Redeemed ==
    applyCoupon(newOffer(1, "SAVE10", "fixed", 50, 1, MaxTime), "u1", NoOrder, 50 * Scale, 1)

InitAdmin ==
    /\ offers \in {{}, {Redeemed}}
    /\ now = 1
    /\ pc = [r \in Reqs |-> "idle"]
    /\ req = [r \in Reqs |-> NoReq]
    /\ doc = [r \in Reqs |-> NoDoc]
    /\ discount = [r \in Reqs |-> Null]
    /\ result = [r \in Reqs |-> NoOutcome]
    /\ response = [a \in {Admin} \cup Reqs |-> NoResponse]

NextAdmin == AdminCreate \/ AdminUpdate \/ AdminDelete

SpecAdmin == InitAdmin /\ [][NextAdmin]_vars

----------------------------------------------------------------------------
(* What the admin routes keep true of the stored offers *)

\* C15: after any sequence of createOffer and updateOffer (an update of
\* startDate alone or of endDate alone included) every stored offer has
\* endDate strictly after startDate; a call that is answered 400 leaves the
\* store as it was, and the store changes only on a call that succeeds.
C15_WindowOrdered ==
    /\ [](\A o \in offers : o.endDate > o.startDate)
    /\ [][ /\ response'[Admin].status = 400 => offers' = offers
           /\ offers' # offers => response'[Admin].success ]_vars

\* a call was refused for its dates alone, next to a stored offer that an
\* update had moved to startDate 0
C15_Witness ==
    /\ response[Admin].status = 400
    /\ response[Admin].message = "endDate: End date must be after start date"
    /\ \E o \in offers : o.startDate = 0 /\ o.endDate > 0

\* C17: updateOffer changes policy fields only: whatever the request body,
\* the offer keeps its timesUsed and its usageHistory.
C17_UpdateKeepsUsage ==
    [][ \A o \in offers : \A n \in offers' :
          n.id = o.id =>
              n.timesUsed = o.timesUsed /\ n.usageHistory = o.usageHistory ]_vars

\* C18: an offer that has been redeemed at least once is never removed by
\* deleteOffer.
C18_RedeemedNeverDeleted ==
    [][ \A o \in offers :
          (o.timesUsed > 0 \/ Len(o.usageHistory) > 0) =>
              \E n \in offers' : n.id = o.id ]_vars

\* C19: after any sequence of createOffer and updateOffer (an update of type
\* alone included) every stored percentage offer has 0 < value <= 100 and
\* every stored fixed offer has value > 0.
C19_ValueInRange ==
    \A o \in offers :
        IF o.type = "percentage"
        THEN 0 < o.value /\ o.value <= MaxPercentage
        ELSE o.value > 0

\* the spellings of one code
CaseFamilies == {{"save10", "Save10", "SAVE10"}, {"deal5", "DEAL5"}, {"nope", "NOPE"}}
UpperCodes == {"SAVE10", "DEAL5", "NOPE"}
Lookup(c) == Ended(validateCoupon(offers, now, c, 600, "u1"))

\* C20: the lookup by code ignores letter case: validateCoupon gives the same
\* outcome for every spelling of a code as for its uppercase form; stored
\* codes are always uppercase, and no two stored offers have codes that
\* differ only by letter case.
C20_CaseInsensitive ==
    /\ \A o \in offers : o.code \in UpperCodes
    /\ \A o1 \in offers : \A o2 \in offers :
          (\E F \in CaseFamilies : o1.code \in F /\ o2.code \in F) => o1 = o2
    /\ \A F \in CaseFamilies : \A c1 \in F : \A c2 \in F : Lookup(c1) = Lookup(c2)

\* SAVE10 and DEAL5 are stored and the lowercase spellings find them
C20_Witness ==
    /\ {o.code : o \in offers} = {"SAVE10", "DEAL5"}
    /\ Lookup("save10").kind = "ok"
    /\ Lookup("deal5").kind = "ok"

----------------------------------------------------------------------------
(* validateCoupon: several failures at once, and the unset usageLimit *)

Exhausted == Stored.usageLimit # Null /\ Stored.timesUsed >= Stored.usageLimit
Excluded(r) ==
    Stored.userSpecific /\ req[r].userId # NoUser /\ req[r].userId \notin Stored.allowedUsers

\* C21: when several failure conditions hold at once validateCoupon reports
\* the first of NotFound, MinimumNotMet, UsageLimitExceeded, UserNotEligible:
\* an unavailable offer gives NotFound whatever else holds, an order below the
\* minimum gives MinimumNotMet also on an exhausted offer and for a user who
\* is not allowed, an exhausted offer gives UsageLimitExceeded also for a
\* user who is not allowed.
C21_Precedence ==
    \A r \in Reqs :
        Returned(r) =>
            /\ ~Available(r) => result[r].kind = "NotFound"
            /\ (Available(r) /\ ~Qualifies(r)) => result[r].kind = "MinimumNotMet"
            /\ (Available(r) /\ Qualifies(r) /\ Exhausted) =>
                   result[r].kind = "UsageLimitExceeded"
            /\ (Available(r) /\ Qualifies(r) /\ ~Exhausted /\ Excluded(r)) =>
                   result[r].kind = "UserNotEligible"

\* an exhausted offer, an order below the minimum, a user who is not allowed
C21_Witness ==
    \E r \in Reqs :
        /\ Returned(r) /\ Available(r)
        /\ ~Qualifies(r) /\ Exhausted /\ Excluded(r)
        /\ result[r].kind = "MinimumNotMet"

\* C25: for an offer whose usageLimit is unset validateCoupon never fails
\* with UsageLimitExceeded, whatever timesUsed is; however often the offer
\* has been applied it is still returned when the other checks pass.
C25_UnsetLimitUnlimited ==
    \A r \in Reqs :
        (Returned(r) /\ Stored.usageLimit = Null) =>
            /\ result[r].kind # "UsageLimitExceeded"
            /\ (Available(r) /\ Qualifies(r) /\ ~Excluded(r)) =>
                   result[r].kind = "ok" /\ doc[r] = Stored

\* an offer without a limit, applied MaxUsed times, is returned
C25_Witness ==
    \E r \in Reqs :
        /\ Returned(r) /\ Stored.usageLimit = Null
        /\ Stored.timesUsed = MaxUsed /\ Len(Stored.usageHistory) = MaxUsed
        /\ result[r].kind = "ok"

----------------------------------------------------------------------------
(* The apply flow: a validateCoupon that fails, and what an entry records *)

Failures == {"NotFound", "MinimumNotMet", "UsageLimitExceeded", "UserNotEligible"}

\* C26: in the apply flow an error of validateCoupon ends the call: the step
\* in which validateCoupon fails answers 400 with the message of the error
\* and leaves every stored offer as it was, the request is finished and takes
\* no further step (no applyCoupon, no retry).
C26_FailedValidationStops ==
    [][ \A r \in Reqs :
          /\ (ValidateReturns(r) /\ result'[r].kind \in Failures) =>
                /\ pc'[r] = "done"
                /\ offers' = offers
                /\ doc'[r] = NoDoc
                /\ response'[r] = Respond(400, FALSE, result'[r].message, Null)
          /\ (pc[r] = "done" /\ result[r].kind \in Failures) =>
                /\ pc'[r] = "done"
                /\ response'[r] = response[r]
                /\ (offers' # offers => \E q \in Reqs \ {r} : ApplyReturns(q)) ]_vars

\* a request refused with UsageLimitExceeded after another one used the offer
C26_Witness ==
    \E r \in Reqs :
        /\ pc[r] = "done" /\ result[r].kind = "UsageLimitExceeded"
        /\ response[r] = Respond(400, FALSE, "Coupon usage limit exceeded", Null)
        /\ Stored.timesUsed = 1 /\ Len(Stored.usageHistory) = 1
        /\ Stored.usageHistory[1].userId # req[r].userId

\* C30: the usageHistory entry that the apply flow writes for a request
\* records the requesting user as userId and, as discountApplied,
\* calculateDiscount of the validated offer for the orderAmount of the
\* request; so 0 <= discountApplied <= orderAmount, and the discount in the
\* answer is the recorded one.
C30_EntryRecordsDiscount ==
    [][ \A r \in Reqs :
          ApplyReturns(r) =>
              LET e == Last((CHOOSE o \in offers' : TRUE).usageHistory)
                  d == calculateDiscount(doc[r], req[r].orderAmount)
              IN  /\ Len((CHOOSE o \in offers' : TRUE).usageHistory)
                        = Len(Stored.usageHistory) + 1
                  /\ e.userId = req[r].userId
                  /\ e.discountApplied = d
                  /\ 0 <= e.discountApplied
                  /\ e.discountApplied <= req[r].orderAmount * Scale
                  /\ response'[r].discount = e.discountApplied ]_vars

\* WELCOME10 on an order of 1200: 10 percent are 120, recorded and returned
C30_Witness ==
    \E r \in Reqs :
        /\ pc[r] = "done" /\ response[r].success
        /\ req[r].orderAmount = 1200 /\ doc[r].type = "percentage" /\ doc[r].value = 10
        /\ response[r].discount = 120 * Scale
        /\ \E i \in 1..Len(Stored.usageHistory) :
              /\ Stored.usageHistory[i].userId = req[r].userId
              /\ Stored.usageHistory[i].discountApplied = 120 * Scale

----------------------------------------------------------------------------
(* applyCoupon twice for one order *)

\* C23: applyCoupon does not look at orderId: two calls on one offer with the
\* same userId and the same orderId (or both without an orderId) each
\* succeed, timesUsed has grown by 2 and usageHistory has two entries more.
C23_NoDeduplication ==
    \A r1 \in Reqs : \A r2 \in Reqs \ {r1} :
        (/\ pc[r1] = "done" /\ result[r1].kind = "ok"
         /\ pc[r2] = "done" /\ result[r2].kind = "ok"
         /\ Stored.usageLimit = Null
         /\ req[r1].userId # NoUser /\ req[r1].userId = req[r2].userId
         /\ orNull(req[r1].orderId) = orNull(req[r2].orderId)
         /\ discount[r1] >= 0 /\ discount[r2] >= 0
         /\ Cardinality(Called) = 2) =>
            /\ response[r1].success /\ response[r2].success
            /\ Len(Stored.usageHistory) = 2
            /\ Stored.timesUsed = 2

----------------------------------------------------------------------------
(* offer.applyCoupon called on any offer object: the offer is loaded as it   *)
(* is stored (active or not, inside its window or not, with or without uses   *)
(* left, open to the user or not) and applyCoupon is called on it.            *)

LoadAmounts == {1, 1000}
LoadDiscounts == {0, 50 * Scale}

\* the caller holds the stored offer and the arguments of its call
LoadOffer(r) ==
    /\ pc[r] = "start"
    /\ \E orderAmount \in LoadAmounts, userId \in Users, d \in LoadDiscounts :
         /\ req' = [req EXCEPT ![r] = Request(Stored.code, orderAmount, userId, NoOrder)]
         /\ discount' = [discount EXCEPT ![r] = d]
    /\ doc' = [doc EXCEPT ![r] = Stored]
    /\ pc' = [pc EXCEPT ![r] = "calculated"]
    /\ UNCHANGED <<offers, now, result, response>>

NextAny == \E r \in Reqs : LoadOffer(r) \/ MethodApply(r)

SpecAny == InitValidate /\ [][NextAny]_vars

AnyApplyReturns(r) == pc[r] = "calculated" /\ pc'[r] = "done"

\* C24: applyCoupon does not validate again: on an offer object that is
\* inactive, outside its window, exhausted, restricted to other users or
\* applied to an order below the minimum, and with any discountApplied, it
\* increments the timesUsed of the object and appends the entry; the call
\* fails only when the entry itself is not a valid usageHistory element, and
\* when it succeeds the stored offer has the increment and the entry.
C24_NoRevalidation ==
    [][ \A r \in Reqs :
          AnyApplyReturns(r) =>
              LET e == usageEntry(req'[r].userId, req'[r].orderId, discount'[r], now)
                  after == CHOOSE o \in offers' : TRUE
              IN  /\ doc'[r].timesUsed = doc[r].timesUsed + 1
                  /\ doc'[r].usageHistory = Append(doc[r].usageHistory, e)
                  /\ response'[r].success <=> usageEntryValid(e)
                  /\ response'[r].success =>
                        /\ after.timesUsed = Stored.timesUsed + 1
                        /\ after.usageHistory = Append(Stored.usageHistory, e)
                  /\ ~response'[r].success => offers' = offers ]_vars

\* applied with success to an inactive offer after its window, exhausted,
\* restricted to another user, for an order below the minimum
C24_Witness ==
    \E r \in Reqs :
        /\ pc[r] = "done" /\ response[r].success
        /\ ~Stored.isActive /\ now > Stored.endDate
        /\ Stored.userSpecific /\ req[r].userId \notin Stored.allowedUsers
        /\ req[r].orderAmount < Stored.minimumOrderAmount
        /\ Stored.usageLimit # Null /\ Stored.timesUsed > Stored.usageLimit
        /\ Stored = doc[r]

----------------------------------------------------------------------------
(* validateCoupon called again and again on one code while the admin toggles *)
(* isActive with updateOffer and the clock runs past endDate.  The calls are  *)
(* made one after another.                                                    *)

Calls == 1..(MaxReq + 2)
LastInstant == MaxTime - 1

\* an offer without minimum, limit or user restriction, window [1, LastInstant]
OpenOffer == Offer("fixed", 100, 0, Null, Null, 0, 1, LastInstant, TRUE, FALSE, {})

InitAgain ==
    /\ offers = {OpenOffer}
    /\ now = 1
    /\ pc = [c \in Calls |-> "start"]
    /\ req = [c \in Calls |-> NoReq]
    /\ doc = [c \in Calls |-> NoDoc]
    /\ discount = [c \in Calls |-> Null]
    /\ result = [c \in Calls |-> NoOutcome]
    /\ response = [a \in {Admin} \cup Calls |-> NoResponse]

\* validateCoupon that answers from the call before when that one succeeded
ValidateAgain_cached(c) ==
    /\ pc[c] = "start"
    /\ \A q \in Calls : q < c => pc[q] = "returned"
    /\ \E code \in FlowCodes :
         LET v == IF c > 1 /\ result[c - 1].kind = "ok" /\ req[c - 1].code = code
                  THEN Outcome("ok", "", Null, doc[c - 1])
                  ELSE validateCoupon(offers, now, code, 600, "u1") IN
           /\ req' = [req EXCEPT ![c] = Request(code, 600, "u1", NoOrder)]
           /\ result' = [result EXCEPT ![c] = Ended(v)]
           /\ doc' = [doc EXCEPT ![c] = v.offer]
    /\ pc' = [pc EXCEPT ![c] = "returned"]
    /\ UNCHANGED <<offers, now, discount, response>>

\* Offer.validateCoupon(code, 600, "u1"), after the calls before it
ValidateAgain(c) ==
    /\ pc[c] = "start"
    /\ \A q \in Calls : q < c => pc[q] = "returned"
    /\ \E code \in FlowCodes :
         LET v == validateCoupon(offers, now, code, 600, "u1") IN
           /\ req' = [req EXCEPT ![c] = Request(code, 600, "u1", NoOrder)]
           /\ result' = [result EXCEPT ![c] = Ended(v)]
           /\ doc' = [doc EXCEPT ![c] = v.offer]
    /\ pc' = [pc EXCEPT ![c] = "returned"]
    /\ UNCHANGED <<offers, now, discount, response>>

\* PUT /offers/:id with body {isActive: b}
AdminSetActive == \E o \in offers, b \in BOOLEAN : updateOffer(o.id, "isActive", b)

\* new Date() grows, up to one instant after the window
Tick ==
    /\ now <= LastInstant
    /\ now' = now + 1
    /\ UNCHANGED <<offers, pc, req, doc, discount, result, response>>

NextAgain == (\E c \in Calls : ValidateAgain(c)) \/ AdminSetActive \/ Tick

SpecAgain == InitAgain /\ [][NextAgain]_vars

\* C22: validity is computed anew on every validateCoupon call from the
\* stored isActive and the time of the call: whatever earlier calls returned,
\* a call on the code of the offer succeeds when the offer is active and
\* inside its window at that moment and fails with NotFound otherwise (after
\* the admin set isActive to false, after the clock passed endDate), so it
\* succeeds again after the admin set isActive back to true inside the window.
C22_ValidityRecomputed ==
    [][ \A c \in Calls :
          (pc[c] = "start" /\ pc'[c] = "returned"
             /\ toUpperCase(req'[c].code) = Stored.code) =>
              IF Stored.isActive /\ Stored.startDate <= now /\ now <= Stored.endDate
              THEN result'[c].kind = "ok" /\ doc'[c] = Stored
              ELSE result'[c] = NotFoundAnswer /\ doc'[c] = NoDoc ]_vars

\* four calls on the code: found, refused while inactive, found again after
\* the offer was made active again, refused after endDate on the active offer
C22_Witness ==
    /\ \A c \in 1..4 : pc[c] = "returned" /\ req[c].code = "save10"
    /\ result[1].kind = "ok"
    /\ result[2] = NotFoundAnswer
    /\ result[3].kind = "ok"
    /\ result[4] = NotFoundAnswer
    /\ Stored.isActive /\ now > Stored.endDate
    /\ response[Admin].status = 200

----------------------------------------------------------------------------
(* The apply flow and removeCoupon with one client more: requests overlap as *)
(* in Spec, and a request that was answered may be followed by POST           *)
(* /offers/remove.                                                            *)

Clients == 1..(MaxReq + 1)

InitClients ==
    /\ offers \in {{o} : o \in FlowOffers}
    /\ now = 1
    /\ pc = [r \in Clients |-> "start"]
    /\ req = [r \in Clients |-> NoReq]
    /\ doc = [r \in Clients |-> NoDoc]
    /\ discount = [r \in Clients |-> Null]
    /\ result = [r \in Clients |-> NoOutcome]
    /\ response = [r \in Clients |-> NoResponse]

\* removeCoupon: answers 200 and touches nothing
HandlerRemove(r) ==
    /\ pc[r] = "done"
    /\ response[r].success
    /\ response' = [response EXCEPT ![r] =
            Respond(200, TRUE, "Coupon removed successfully", Null)]
    /\ pc' = [pc EXCEPT ![r] = "removed"]
    /\ UNCHANGED <<offers, now, req, doc, discount, result>>

NextClients ==
    \E r \in Clients :
        HandlerValidate(r) \/ HandlerCalculate(r) \/ HandlerApply(r) \/ HandlerRemove(r)

SpecClients == InitClients /\ [][NextClients]_vars

IsPrefix(h, k) == Len(h) <= Len(k) /\ SubSeq(k, 1, Len(h)) = h

\* C27: over any sequence of validateCoupon, calculateDiscount, applyCoupon
\* and removeCoupon calls the timesUsed of an offer never decreases and its
\* usageHistory only grows at the end: the history before a step is a prefix
\* of the history after it.
C27_UsageOnlyGrows ==
    [][ \A o \in offers : \A n \in offers' :
          n.id = o.id =>
              /\ n.timesUsed >= o.timesUsed
              /\ IsPrefix(o.usageHistory, n.usageHistory) ]_vars

\* validateCoupon refuses every qualifying order for the code of the offer
\* with UsageLimitExceeded
RefusesAll ==
    \A orderAmount \in FlowAmounts, userId \in Users :
        orderAmount >= Stored.minimumOrderAmount =>
            validateCoupon(offers, now, Stored.code, orderAmount, userId).kind
                = "UsageLimitExceeded"

\* C29: without admin edits exhaustion is permanent: once the stored
\* timesUsed has reached usageLimit, validateCoupon for the code fails with
\* UsageLimitExceeded for every qualifying order, after every further step
\* of the engine.
C29_ExhaustionPermanent ==
    [][ (Stored.usageLimit # Null /\ Stored.timesUsed >= Stored.usageLimit) =>
            RefusesAll' ]_vars

----------------------------------------------------------------------------
(* Apply requests one after another: a request starts only when every other  *)
(* one has been answered or has not started; no admin edits.                  *)

Serial(r) == \A q \in Clients \ {r} : pc[q] \in {"start", "done"}

NextSerial ==
    \E r \in Clients :
        /\ Serial(r)
        /\ HandlerValidate(r) \/ HandlerCalculate(r) \/ HandlerApply(r)

SpecSerial == InitClients /\ [][NextSerial]_vars

\* the answered requests that ask for the offer by its code with an order of
\* at least the minimum and a user the offer is open to
Qualifying ==
    {r \in Clients :
        /\ pc[r] = "done"
        /\ toUpperCase(req[r].code) = Stored.code
        /\ req[r].orderAmount >= Stored.minimumOrderAmount
        /\ (~Stored.userSpecific \/ req[r].userId \in Stored.allowedUsers)}
Accepted == {r \in Qualifying : response[r].success}

\* C28: when apply requests run strictly one after another and there are no
\* admin edits, an offer with usageLimit L accepts the first L qualifying
\* requests and refuses every later one with UsageLimitExceeded: at every
\* moment the accepted ones are min(L, qualifying requests so far), and
\* timesUsed is their number, so timesUsed <= L.
C28_SerialLimit ==
    Stored.usageLimit # Null =>
        /\ Stored.timesUsed <= Stored.usageLimit
        /\ Stored.timesUsed = Cardinality(Accepted)
        /\ Len(Stored.usageHistory) = Cardinality(Accepted)
        /\ Cardinality(Accepted) = Min(Stored.usageLimit, Cardinality(Qualifying))
        /\ \A r \in Qualifying \ Accepted :
              /\ result[r].kind = "UsageLimitExceeded"
              /\ response[r] = Respond(400, FALSE, "Coupon usage limit exceeded", Null)

\* usageLimit MaxLimit and one qualifying request more: the last is refused
C28_Witness ==
    /\ Stored.usageLimit = MaxLimit
    /\ Cardinality(Qualifying) = MaxLimit + 1
    /\ Cardinality(Accepted) = MaxLimit
    /\ Stored.timesUsed = MaxLimit

====
